---------------------------- MODULE Spec2Model ----------------------------
(* Model of helmyyoga/LLM-Chat, src/app.py: the Streamlit script main() and *)
(* the pipeline it drives (read uploads, extract text with OCR fallback,    *)
(* chunk, embed, build the conversation chain, ask questions).              *)
(*                                                                          *)
(* One action is one UI event; each event reruns main() from top to bottom. *)
EXTENDS Integers, Sequences, FiniteSets

(***************************************************************************)
(* Text.  A Python str is kept as a run-length sequence over three         *)
(* character classes: "x" (any non-whitespace character), "sp" (a          *)
(* whitespace character other than a line break) and "nl" (the line break  *)
(* "\n").  <<R("x", 600)>> is a string of 600 non-whitespace characters.    *)
(* Adjacent runs of one class are merged, so equal strings are equal       *)
(* sequences.                                                              *)
(***************************************************************************)
R(c, n) == [c |-> c, n |-> n]

\* F(v), with v evaluated once before F is applied to it
Apply(v, F(_)) == CHOOSE r \in { F(z) : z \in {v} } : TRUE

Empty == << >>

RECURSIVE TLen(_)
TLen(t) == IF t = << >> THEN 0 ELSE Head(t).n + TLen(Tail(t))

Cat(a, b) ==
  IF a = << >> THEN b
  ELSE IF b = << >> THEN a
  ELSE IF a[Len(a)].c = b[1].c
       THEN SubSeq(a, 1, Len(a) - 1)
              \o << R(b[1].c, a[Len(a)].n + b[1].n) >>
              \o Tail(b)
       ELSE a \o b

RECURSIVE LStrip(_)
LStrip(t) ==
  IF t = << >> THEN t
  ELSE IF Head(t).c # "x" THEN LStrip(Tail(t)) ELSE t

RECURSIVE RStrip(_)
RStrip(t) ==
  IF t = << >> THEN t
  ELSE IF t[Len(t)].c # "x" THEN RStrip(SubSeq(t, 1, Len(t) - 1)) ELSE t

\* str.strip()
Strip(t) == RStrip(LStrip(t))

NL == << R("nl", 1) >>

\* [s for s in re.split("\n", text) if s != ""]
RECURSIVE SplitLines(_, _)
SplitLines(t, cur) ==
  IF t = << >>
  THEN IF cur = << >> THEN << >> ELSE << cur >>
  ELSE IF Head(t).c = "nl"
       THEN (IF cur = << >> THEN << >> ELSE << cur >>) \o SplitLines(Tail(t), << >>)
       ELSE SplitLines(Tail(t), cur \o << Head(t) >>)

\* separator.join(docs)
RECURSIVE Join(_)
Join(docs) ==
  IF docs = << >> THEN << >>
  ELSE IF Len(docs) = 1 THEN docs[1]
  ELSE Cat(Cat(docs[1], NL), Join(Tail(docs)))

\* TextSplitter._join_docs: the joined text, stripped; << >> stands for None
join_docs(docs) == Strip(Join(docs))

chunk_size == 1000

chunk_overlap == 200

SepLen(cur) == IF Len(cur) > 0 THEN 1 ELSE 0

\* the pop loop of TextSplitter._merge_splits
RECURSIVE PopWhile(_, _, _)
PopWhile(cur, total, len) ==
  IF total > chunk_overlap
     \/ (total + len + SepLen(cur) > chunk_size /\ total > 0)
  THEN PopWhile(Tail(cur),
                total - (TLen(cur[1]) + (IF Len(cur) > 1 THEN 1 ELSE 0)),
                len)
  ELSE [cur |-> cur, total |-> total]

\* one pass of the loop of TextSplitter._merge_splits over split d
merge_step(st, d) ==
  LET len  == TLen(d)
      over == st.total + len + SepLen(st.cur) > chunk_size
      doc  == join_docs(st.cur)
      docs1 == IF over /\ Len(st.cur) > 0 /\ doc # << >>
               THEN Append(st.docs, doc) ELSE st.docs
      p    == IF over /\ Len(st.cur) > 0
              THEN PopWhile(st.cur, st.total, len)
              ELSE [cur |-> st.cur, total |-> st.total]
  IN  Apply(p, LAMBDA q :
        [docs  |-> docs1,
         cur   |-> Append(q.cur, d),
         total |-> q.total + len + (IF Len(q.cur) > 0 THEN 1 ELSE 0)])

RECURSIVE merge_splits(_, _)
merge_splits(splits, st) ==
  IF splits = << >>
  THEN LET doc == join_docs(st.cur)
       IN  IF doc = << >> THEN st.docs ELSE Append(st.docs, doc)
  ELSE Apply(merge_step(st, Head(splits)),
             LAMBDA st1 : merge_splits(Tail(splits), st1))

\* split_text: CharacterTextSplitter(separator="\n", chunk_size=1000,
\* chunk_overlap=200, length_function=len).split_text(text)
split_text(text) ==
  Apply(SplitLines(text, << >>), LAMBDA splits :
    merge_splits(splits, [docs |-> << >>, cur |-> << >>, total |-> 0]))

(***************************************************************************)
(* Uploaded documents.  The PDF libraries are outside the repository; a    *)
(* document is modelled by what they return for it: the text of each page  *)
(* (PyPDF2) or whether parsing raises, and the OCR text of each page image *)
(* (pdf2image + pytesseract) or whether rendering/OCR raises.              *)
(***************************************************************************)
X(n) == << R("x", n) >>

SP == << R("sp", 1) >>

\* a text layer with surrounding whitespace
DocText ==
  [name |-> "report.pdf", parseOk |-> TRUE,
   pages |-> << Cat(SP, X(600)), Cat(X(300), NL) >>,
   ocrOk |-> TRUE, scan |-> << X(100) >>]

\* a text layer that is one line longer than the chunk size
DocLong ==
  [name |-> "contract.pdf", parseOk |-> TRUE,
   pages |-> << X(1200) >>,
   ocrOk |-> TRUE, scan |-> << X(100) >>]

\* a text layer of three lines
DocLines ==
  [name |-> "notes.pdf", parseOk |-> TRUE,
   pages |-> << Cat(X(500), NL), Cat(Cat(X(150), NL), X(500)) >>,
   ocrOk |-> TRUE, scan |-> << X(100) >>]

\* parsing raises, OCR reads the pages
DocScan ==
  [name |-> "scan.pdf", parseOk |-> FALSE,
   pages |-> << Empty, Empty >>,
   ocrOk |-> TRUE, scan |-> << Cat(X(300), NL), Cat(X(300), SP) >>]

\* a whitespace-only text layer, OCR reads the page
DocWs ==
  [name |-> "form.pdf", parseOk |-> TRUE,
   pages |-> << Cat(SP, NL) >>,
   ocrOk |-> TRUE, scan |-> << X(80) >>]

\* no text layer, OCR returns only whitespace
DocBlank ==
  [name |-> "blank.pdf", parseOk |-> TRUE,
   pages |-> << Empty >>,
   ocrOk |-> TRUE, scan |-> << SP >>]

\* parsing raises, rendering raises
DocBroken ==
  [name |-> "broken.pdf", parseOk |-> FALSE,
   pages |-> << X(40) >>,
   ocrOk |-> FALSE, scan |-> << X(40) >>]

\* the values the file uploader can hold
Batches ==
  { << >>,
    << DocText, DocBlank, DocLines >>,
    << DocWs, DocLong, DocScan >>,
    << DocBlank, DocBroken >> }

RECURSIVE Concat(_)
Concat(texts) ==
  IF texts = << >> THEN << >> ELSE Cat(Head(texts), Concat(Tail(texts)))

\* read_pdfs_to_bytes: (name, bytes) of every upload; f.read() may raise
read_pdfs_to_bytes(uploaded_files, readRaises) ==
  [raised |-> readRaises /\ uploaded_files # << >>,
   files  |-> IF readRaises THEN << >> ELSE uploaded_files]

\* extract_text_from_pdf_bytes: page texts concatenated, "" when parsing raises
extract_text_from_pdf_bytes(doc) ==
  IF doc.parseOk THEN Concat(doc.pages) ELSE Empty

\* ocr_text_from_pdf_bytes: OCR of every page image, "" when it raises
ocr_text_from_pdf_bytes(doc) ==
  IF doc.ocrOk THEN Concat(doc.scan) ELSE Empty

\* a faulty variant of NeedsOcr: the fallback runs for every document
NeedsOcr_Always(t) == TRUE

\* if not t.strip()
NeedsOcr(t) == Strip(t) = Empty

\* a faulty variant of OcrUsable: if ocr_t
OcrUsable_NonEmpty(ocr_t) == ocr_t # Empty

\* if ocr_t.strip()
OcrUsable(ocr_t) == Strip(ocr_t) # Empty

\* one pass of the loop of get_all_text over file idx; parts and ocr_ran
\* record, per file, what was appended to combined and whether the OCR
\* fallback was called
get_all_text_step(acc, idx, data) ==
  Apply(extract_text_from_pdf_bytes(data), LAMBDA t :
    IF NeedsOcr(t)
    THEN Apply(ocr_text_from_pdf_bytes(data), LAMBDA ocr_t :
           IF OcrUsable(ocr_t)
           THEN [combined |-> Cat(acc.combined, Cat(ocr_t, NL)),
                 used_ocr |-> TRUE,
                 ocr_ran  |-> acc.ocr_ran \cup {idx},
                 parts    |-> Append(acc.parts, Cat(ocr_t, NL))]
           ELSE [acc EXCEPT !.ocr_ran = @ \cup {idx},
                            !.parts = Append(@, Empty)])
    ELSE [acc EXCEPT !.combined = Cat(@, Cat(t, NL)),
                     !.parts = Append(@, Cat(t, NL))])

RECURSIVE get_all_text_loop(_, _, _)
get_all_text_loop(files_bytes, idx, acc) ==
  IF idx > Len(files_bytes) THEN acc
  ELSE Apply(get_all_text_step(acc, idx, files_bytes[idx]),
             LAMBDA acc1 : get_all_text_loop(files_bytes, idx + 1, acc1))

NoText ==
  [combined |-> Empty, used_ocr |-> FALSE, ocr_ran |-> {}, parts |-> << >>]

\* get_all_text: (combined.strip(), used_ocr)
get_all_text(files_bytes) ==
  Apply(get_all_text_loop(files_bytes, 1, NoText), LAMBDA r :
    [full_text |-> Strip(r.combined), used_ocr |-> r.used_ocr,
     ocr_ran |-> r.ocr_ran, parts |-> r.parts])

(***************************************************************************)
(* The external services.  Each rerun of main() draws at most one failure  *)
(* of a stage that talks to the outside: "read" (f.read() raises), "embed" *)
(* (GoogleGenerativeAIEmbeddings / FAISS.from_texts raises), "chain"       *)
(* (ChatGoogleGenerativeAI / ConversationalRetrievalChain raises), "llm"   *)
(* (the chain call raises).                                                *)
(***************************************************************************)
Failures == {"none", "read", "embed", "chain", "llm"}

\* the failures a run can meet when Process is not clicked: only the
\* question box can reach an external service
AskFailures == {"none", "llm"}

\* where GOOGLE_API_KEY is found: in the environment; only in the secret
\* store; nowhere (a secret store without the key); nowhere and no secret
\* store at all, in which case st.secrets.get raises
Credentials == {"env", "secrets", "none", "nofile"}

None == [set |-> FALSE]

\* os.environ.get("GOOGLE_API_KEY") or st.secrets.get("GOOGLE_API_KEY")
api_key(cred) ==
  [raised |-> cred = "nofile", found |-> cred \in {"env", "secrets"}]

\* build_vectorstore: the index over the chunks, None on any failure
build_vectorstore(chunks, cred, fail) ==
  LET k == api_key(cred)
  IN  IF k.raised THEN [vs |-> None, error |-> "Error creating vector store"]
      ELSE IF ~k.found THEN [vs |-> None, error |-> "Google API key not found"]
      ELSE IF fail = "embed"
           THEN [vs |-> None, error |-> "Error creating vector store"]
      ELSE [vs |-> [set |-> TRUE, texts |-> chunks], error |-> ""]

\* build_conversation_chain: a chain over the index with a fresh, empty
\* ConversationBufferMemory; None on any failure
build_conversation_chain(vectorstore, cred, fail) ==
  LET k == api_key(cred)
  IN  IF k.raised
      THEN [chain |-> None, error |-> "Error creating conversation chain"]
      ELSE IF ~k.found THEN [chain |-> None, error |-> "Google API key not found"]
      ELSE IF fail = "chain"
           THEN [chain |-> None, error |-> "Error creating conversation chain"]
      ELSE [chain |-> [set |-> TRUE, retriever |-> vectorstore.texts,
                       memory |-> << >>],
            error |-> ""]

\* one question/answer pair of the chain's memory: the question and the
\* chunks the answer was generated from
Turn(query, chain) == [question |-> query, context |-> chain.retriever]

\* ask_question.  ss is st.session_state.  The chain appends the turn to its
\* memory only when the call returns; response["chat_history"] is the
\* memory's message list.
ask_question(ss, query, fail) ==
  IF ~ss.conversation.set
  THEN [ss |-> ss, called |-> FALSE, appended |-> 0,
        error |-> "Proses dulu PDF kamu sebelum bertanya."]
  ELSE IF fail = "llm"
  THEN [ss |-> ss, called |-> TRUE, appended |-> 0,
        error |-> "Terjadi kesalahan saat memproses pertanyaan"]
  ELSE LET mem == Append(ss.conversation.memory, Turn(query, ss.conversation))
       IN  [ss |-> [conversation |-> [ss.conversation EXCEPT !.memory = mem],
                    chat_history |-> mem],
            called |-> TRUE, appended |-> 1, error |-> ""]

QuickButtons ==
  {"Ringkas dokumen", "Poin penting", "Angka & tanggal", "Nama & entitas",
   "Kesimpulan"}

\* the fixed question each quick-suggestion button passes to ask_question
QuickQuestion(b) ==
  CASE b = "Ringkas dokumen" -> "Ringkas isi dokumen ini secara singkat dan terstruktur."
    [] b = "Poin penting"    -> "Apa saja poin-poin penting dari dokumen ini? Buat bullet points."
    [] b = "Angka & tanggal" -> "Sebutkan angka, tanggal, atau metrik penting beserta konteksnya."
    [] b = "Nama & entitas"  -> "Sebutkan nama orang, organisasi, lokasi, atau entitas penting yang disebutkan."
    [] b = "Kesimpulan"      -> "Apa kesimpulan utama dokumen ini? Sertakan rekomendasi bila ada."

\* what a rerun that has done nothing yet reports: the event and the button
\* that triggered it, the outcome of the startup key lookup, the uploads
\* the file uploader holds
Run0(event, button, pending, k) ==
  [event |-> event, button |-> button,
   key |-> IF k.raised THEN "raised" ELSE IF k.found THEN "found" ELSE "missing",
   pending |-> pending, calls |-> << >>, errors |-> << >>,
   escaped |-> "", failed |-> "", shown |-> {}, files |-> << >>,
   text |-> [full_text |-> Empty, used_ocr |-> FALSE, ocr_ran |-> {},
             parts |-> << >>],
   chunks |-> << >>, asked |-> << >>,
   appended |-> 0, done |-> FALSE]

\* what a call of ask_question adds to the report of the run
Asked(r, query, a) ==
  [r EXCEPT !.calls = Append(@, "ask_question"),
            !.asked = Append(@, query),
            !.appended = @ + a.appended,
            !.failed = IF a.called /\ a.error # "" THEN "llm" ELSE @,
            !.errors = IF a.error # "" THEN Append(@, a.error) ELSE @]

\* main, lines 472-478: the free-form question box, reached whenever main
\* was not left earlier
FreeForm(ss, r, user_q, fail) ==
  IF ~ss.conversation.set THEN [ss |-> ss, run |-> r]
  ELSE IF user_q = ""
  THEN [ss |-> ss, run |-> [r EXCEPT !.shown = @ \cup {"input"}]]
  ELSE Apply(ask_question(ss, user_q, fail), LAMBDA a :
         [ss |-> a.ss,
          run |-> Asked([r EXCEPT !.shown = @ \cup {"input"}], user_q, a)])

\* main, lines 450-470: the five quick-suggestion buttons, rendered at the
\* end of a successful Process branch; button is the one button that
\* reports true in this rerun
QuickSuggestions(ss, r, button, fail) ==
  IF button \in QuickButtons
  THEN Apply(ask_question(ss, QuickQuestion(button), fail), LAMBDA a :
         [ss |-> a.ss,
          run |-> Asked([r EXCEPT !.shown = @ \cup {"quick"}],
                        QuickQuestion(button), a)])
  ELSE [ss |-> ss, run |-> [r EXCEPT !.shown = @ \cup {"quick"}]]

\* a faulty variant of StartupKeyMissing: the startup check is skipped
StartupKeyMissing_Never(k) == FALSE

\* main, line 321: if not api_key
StartupKeyMissing(k) == ~k.found

\* a faulty variant of NoTextExtracted: if full_text is None
NoTextExtracted_IsNone(full_text) == FALSE

\* main, line 389: if not full_text.strip()
NoTextExtracted(full_text) == Strip(full_text) = Empty

\* a faulty variant of OnBuildFailure: a failed build clears the conversation
OnBuildFailure_Clear(ss) == [ss EXCEPT !.conversation = None]

\* main, lines 409-412 and 418-421: a build that returned None makes main
\* return; st.session_state is not touched
OnBuildFailure(ss) == ss

\* a faulty variant of StoreChain: the new index is merged into the chain the
\* session already holds, which keeps its memory
StoreChain_Merge(ss, chain) ==
  IF ss.conversation.set
  THEN [ss EXCEPT !.conversation.retriever = @ \o chain.retriever]
  ELSE [ss EXCEPT !.conversation = chain]

\* main, line 423: a chain that was built is stored in the session
StoreChain(ss, chain) == [ss EXCEPT !.conversation = chain]

Called(r, f) == [r EXCEPT !.calls = Append(@, f)]

Error(r, msg) == [r EXCEPT !.errors = Append(@, msg)]

\* main, lines 405-470: embeddings, chain, success, quick suggestions
Build(ss, r, chunks, cred, button, fail) ==
  Apply(build_vectorstore(chunks, cred, fail), LAMBDA bv :
    IF ~bv.vs.set
    THEN [ss |-> OnBuildFailure(ss), left |-> TRUE,
          run |-> [Error(Called(r, "build_vectorstore"), bv.error)
                     EXCEPT !.failed = "embed"]]
    ELSE Apply(build_conversation_chain(bv.vs, cred, fail), LAMBDA bc :
      Apply(Called(Called(r, "build_vectorstore"), "build_conversation_chain"),
            LAMBDA r1 :
        IF ~bc.chain.set
        THEN [ss |-> OnBuildFailure(ss), left |-> TRUE,
              run |-> [Error(r1, bc.error) EXCEPT !.failed = "chain"]]
        ELSE Apply(QuickSuggestions(StoreChain(ss, bc.chain),
                                    [r1 EXCEPT !.done = TRUE], button, fail),
                   LAMBDA q : [ss |-> q.ss, left |-> FALSE, run |-> q.run]))))

\* main, lines 374-470: the Process branch with at least one upload.
\* left is TRUE when main returns (or raises) inside the branch.
Process(ss, r, uploaded, cred, button, fail) ==
  Apply(read_pdfs_to_bytes(uploaded, fail = "read"), LAMBDA rd :
    IF rd.raised
    THEN [ss |-> ss, left |-> TRUE,
          run |-> [Called(r, "read_pdfs_to_bytes")
                     EXCEPT !.escaped = "read_pdfs_to_bytes"]]
    ELSE Apply(get_all_text(rd.files), LAMBDA tx :
      Apply([Called(Called(r, "read_pdfs_to_bytes"), "get_all_text")
               EXCEPT !.files = rd.files, !.text = tx], LAMBDA r1 :
        IF NoTextExtracted(tx.full_text)
        THEN [ss |-> ss, left |-> TRUE,
              run |-> Error(r1, "Tidak ada teks yang bisa diekstrak dari PDF")]
        ELSE Apply(split_text(tx.full_text), LAMBDA ch :
          Apply([Called(r1, "split_text") EXCEPT !.chunks = ch], LAMBDA r2 :
            IF ch = << >>
            THEN [ss |-> ss, left |-> TRUE,
                  run |-> Error(r2, "Tidak ada potongan teks yang valid")]
            ELSE Build(ss, r2, ch, cred, button, fail))))))

\* main(): one run of the script.  event is what triggered the rerun,
\* button the button that reports true in it ("" for none), uploaded and
\* user_q the values of the file uploader and of the question box.
main(ss, cred, uploaded, user_q, event, button, fail) ==
  LET k  == api_key(cred)
      r0 == Run0(event, button, uploaded, k)
      r1 == [r0 EXCEPT !.shown = {"uploader", "process"}]
  IN  IF k.raised THEN [ss |-> ss, run |-> [r0 EXCEPT !.escaped = "st.secrets.get"]]
      ELSE IF StartupKeyMissing(k)
      THEN [ss |-> ss, run |-> Error(r0, "Google API key not found!")]
      ELSE IF button = "Process"
      THEN IF uploaded = << >>
           THEN FreeForm(ss, Error(r1, "Silakan upload minimal 1 PDF dulu."),
                         user_q, fail)
           ELSE Apply(Process(ss, r1, uploaded, cred, button, fail), LAMBDA p :
                  IF p.left THEN [ss |-> p.ss, run |-> p.run]
                  ELSE FreeForm(p.ss, p.run, user_q, fail))
      ELSE FreeForm(ss, r1, user_q, fail)

(***************************************************************************)
(* State.                                                                  *)
(***************************************************************************)
VARIABLES
  cred,          \* where the API key can be found right now
  session,       \* st.session_state: conversation, chat_history
  uploaded,      \* the file uploader's value
  user_q,        \* the question box's value
  run,           \* what the latest run of main() did
  started,       \* the uploads of the latest Process run that read them
  processed      \* the uploads of the latest Process run that succeeded

vars == << cred, session, uploaded, user_q, run, started, processed >>

\* the free-form questions a user types
Questions == {"q1", "q2"}

\* turns a conversation may hold in the model
MaxTurns == 2

Session0 == [conversation |-> None, chat_history |-> << >>]

\* One rerun of the script.  A widget that a run does not render loses its
\* value (Streamlit drops the state of widgets absent from a run).
Rerun(event, button, files, q, fail) ==
  \E m \in { main(session, cred, files, q, event, button, fail) } :
    /\ m.ss.conversation.set => Len(m.ss.conversation.memory) <= MaxTurns
    /\ session' = m.ss
    /\ run' = m.run
    /\ uploaded' = IF "uploader" \in m.run.shown THEN files ELSE << >>
    /\ user_q' = IF "input" \in m.run.shown THEN q ELSE ""
    /\ started' = IF m.run.files # << >> THEN files ELSE started
    /\ processed' = IF m.run.done THEN files ELSE processed
    /\ cred' = cred

\* the session opens: the first run of the script
Init ==
  /\ cred \in Credentials
  /\ \E m \in { main(Session0, cred, << >>, "", "load", "", "none") } :
       /\ session = m.ss
       /\ run = m.run
  /\ uploaded = << >>
  /\ user_q = ""
  /\ started = << >>
  /\ processed = << >>

\* the key is added to or removed from the environment or the secret store
ChangeCredentials ==
  \E c \in Credentials \ {cred} :
    /\ cred' = c
    /\ UNCHANGED << session, uploaded, user_q, run, started, processed >>

\* the user asks for a rerun
RerunScript ==
  \E fail \in AskFailures : Rerun("rerun", "", uploaded, user_q, fail)

\* the user changes the uploaded files
Upload ==
  /\ "uploader" \in run.shown
  /\ \E b \in Batches \ {uploaded}, fail \in AskFailures :
       Rerun("upload", "", b, user_q, fail)

\* the user clicks Process
ClickProcess ==
  /\ "process" \in run.shown
  /\ \E fail \in Failures : Rerun("process", "Process", uploaded, user_q, fail)

\* the user submits (or clears) the question box
SubmitQuestion ==
  /\ "input" \in run.shown
  /\ \E q \in (Questions \cup {""}) \ {user_q}, fail \in AskFailures :
       Rerun("question", "", uploaded, q, fail)

\* the user clicks one of the quick-suggestion buttons
ClickQuick ==
  /\ "quick" \in run.shown
  /\ \E b \in QuickButtons, fail \in AskFailures :
       Rerun("quick", b, uploaded, user_q, fail)

Next ==
  \/ ChangeCredentials
  \/ RerunScript
  \/ Upload
  \/ ClickProcess
  \/ SubmitQuestion
  \/ ClickQuick

Spec == Init /\ [][Next]_vars

(***************************************************************************)
(* Properties.                                                             *)
(***************************************************************************)
Has(seq, e) == \E i \in DOMAIN seq : seq[i] = e

\* the run reached text extraction: Process was clicked and the uploads read
Extracted == Has(run.calls, "get_all_text")

NoTextError == "Tidak ada teks yang bisa diekstrak dari PDF"

Blank(t) == Strip(t) = Empty

\* the chunks a successful Process of these uploads indexes
ChunksOf(files) == split_text(get_all_text(files).full_text)

(* C1: a run of main() that finds no API key (absent from the environment  *)
(* and from the secret store) ends before read_pdfs_to_bytes: it calls no  *)
(* stage at all, reads no file and leaves the session as it was.           *)
C1_NoKeyHaltsBeforeReading ==
  run.key # "found" =>
    /\ run.calls = << >>
    /\ run.files = << >>
    /\ run.chunks = << >>
    /\ run.asked = << >>

\* Process was clicked with uploads waiting and the key was missing
C1_Witness ==
  /\ run.key = "missing"
  /\ run.button = "Process"
  /\ run.pending # << >>

(* C2 as stated: every document with a non-empty text layer is recovered   *)
(* as exactly its direct extraction, and OCR is not run for it.            *)
C2_NonEmptyLayerSkipsOcr ==
  Extracted =>
    \A i \in DOMAIN run.files :
      extract_text_from_pdf_bytes(run.files[i]) # Empty =>
        /\ i \notin run.text.ocr_ran
        /\ run.text.parts[i] = Cat(extract_text_from_pdf_bytes(run.files[i]), NL)

(* C2 amended: every document whose direct extraction holds a              *)
(* non-whitespace character contributes exactly that extraction, followed  *)
(* by a line break, to the corpus, and OCR is not run for it; the corpus   *)
(* returned is the concatenation of the contributions, stripped.           *)
C2_NonBlankLayerSkipsOcr ==
  Extracted =>
    /\ \A i \in DOMAIN run.files :
         ~Blank(extract_text_from_pdf_bytes(run.files[i])) =>
           /\ i \notin run.text.ocr_ran
           /\ run.text.parts[i] = Cat(extract_text_from_pdf_bytes(run.files[i]), NL)
    /\ run.text.full_text = Strip(Concat(run.text.parts))

\* a batch was extracted whose first document has a text layer with
\* leading whitespace, which the corpus loses and the contribution keeps
C2_Witness ==
  /\ Extracted
  /\ \E i \in DOMAIN run.files :
       /\ ~Blank(extract_text_from_pdf_bytes(run.files[i]))
       /\ extract_text_from_pdf_bytes(run.files[i])[1].c = "sp"
       /\ run.text.parts[i] # Empty
       /\ run.text.full_text[1].c = "x"

AllBlank(files) ==
  \A i \in DOMAIN files :
    /\ Blank(extract_text_from_pdf_bytes(files[i]))
    /\ Blank(ocr_text_from_pdf_bytes(files[i]))

(* C4: a Process run that extracted text ends with the "no text extracted" *)
(* error, before split_text, exactly when every document is blank by both  *)
(* paths; otherwise it goes on to split_text, and the documents that are   *)
(* blank by both paths contribute nothing to the corpus.                   *)
C4_HaltsIffAllBlank ==
  Extracted =>
    /\ AllBlank(run.files) <=> Has(run.errors, NoTextError)
    /\ AllBlank(run.files) <=> ~Has(run.calls, "split_text")
    /\ ~AllBlank(run.files) => run.chunks # << >>
    /\ \A i \in DOMAIN run.files :
         AllBlank(<< run.files[i] >>) => run.text.parts[i] = Empty

\* a batch of two documents, both blank by both paths, halted
C4_Witness ==
  /\ Extracted
  /\ Len(run.files) > 1
  /\ AllBlank(run.files)
  /\ Has(run.errors, NoTextError)

C7_OneEntryPerSubmittedQuestion ==
  run.failed # "llm" =>
    run.appended = IF run.event = "question" /\ user_q # "" THEN 1 ELSE 0

(* C8: no failure propagates out of main().                                *)
C8_NothingEscapesMain ==
  run.escaped = ""

(* C9: every chunk that split_text returns is at most chunk_size           *)
(* characters long.                                                        *)
C9_ChunksBounded ==
  \A i \in DOMAIN run.chunks : TLen(run.chunks[i]) <= chunk_size

(* C10: a click on a quick-suggestion button, after a successful Process,  *)
(* makes that rerun call ask_question with the button's question.          *)
C10_QuickButtonAsks ==
  (run.event = "quick" /\ run.key = "found" /\ session.conversation.set) =>
    Has(run.asked, QuickQuestion(run.button))
=============================================================================
